---- MODULE Spec2Model ----
(***************************************************************************)
(* VulkanMeshLoader (base/vulkanMeshLoader.hpp): ingestion of an assimp    *)
(* scene into mesh entries, packing of the entries into an interleaved     *)
(* vertex stream and a merged index stream, and upload of both streams to  *)
(* device buffers on the direct or the staging path.                       *)
(*                                                                         *)
(* Floats are modelled by integers: every float operation of the source    *)
(* used here (negation, product with the scale, fmin, fmax, difference) is *)
(* exact on the small integers the scenes are built from.                  *)
(***************************************************************************)
EXTENDS Integers, Sequences, FiniteSets, TLC

VARIABLES
    m_Entries,     \* std::vector<MeshEntry> m_Entries
    numVertices,   \* uint32_t numVertices
    dim,           \* struct Dimension {min, max, size} dim
    pScene,        \* const aiScene* pScene: <<>> is the null pointer, <<s>> a scene
    dev,           \* the vk::Device: buffers, memory, command buffer, queue, and the
                   \* device calls of the last operation, in order
    meshBuffer,    \* the caller's vkMeshLoader::MeshBuffer
    vertexBuffer,  \* std::vector<float> vertexBuffer of the last createBuffers call
    indexBuffer,   \* std::vector<uint32_t> indexBuffer of the last createBuffers call
    ingested,      \* history: per entry, the source vertices pushed into it, in order
    lastOp,        \* history: the operation that ran last
    lastCall,      \* history: the arguments and outcome of the last createBuffers call
    nLoads, nCreates, nFrees   \* history: how many calls of each kind have run

vars == <<m_Entries, numVertices, dim, pScene, dev, meshBuffer, vertexBuffer,
          indexBuffer, ingested, lastOp, lastCall, nLoads, nCreates, nFrees>>

----------------------------------------------------------------------------
(* Bounds of the model *)

MaxMeshes == 2
MaxVerts == 2
MaxLayoutLen == 2
MaxLoads == 2
MaxCreates == 2
MaxFrees == 2

----------------------------------------------------------------------------
(* Constants of the program *)

VERTEX_LAYOUT_POSITION == 0
VERTEX_LAYOUT_NORMAL == 1
VERTEX_LAYOUT_COLOR == 2
VERTEX_LAYOUT_UV == 3
VERTEX_LAYOUT_TANGENT == 4
VERTEX_LAYOUT_BITANGENT == 5
VERTEX_LAYOUT_DUMMY_FLOAT == 6
VERTEX_LAYOUT_DUMMY_VEC4 == 7

\* sizeof(float) and sizeof(uint32_t)
SizeofFloat == 4
SizeofUint32 == 4

\* FLT_MAX, scaled down to an integer above every coordinate of the scenes
FLT_MAX == 1000

\* the number of memory types getMemoryType scans
MemoryTypeCount == 32

----------------------------------------------------------------------------
(* Small helpers *)

fmax(a, b) == IF a >= b THEN a ELSE b
fmin(a, b) == IF a <= b THEN a ELSE b

Vec3(x, y, z) == <<x, y, z>>
Vec3Scale(v, s) == <<v[1] * s, v[2] * s, v[3] * s>>
Vec3Sub(a, b) == <<a[1] - b[1], a[2] - b[2], a[3] - b[3]>>
Vec3Max(a, b) == <<fmax(a[1], b[1]), fmax(a[2], b[2]), fmax(a[3], b[3])>>
Vec3Min(a, b) == <<fmin(a[1], b[1]), fmin(a[2], b[2]), fmin(a[3], b[3])>>

RECURSIVE SumSeq(_)
SumSeq(s) == IF s = <<>> THEN 0 ELSE Head(s) + SumSeq(Tail(s))

RECURSIVE Flatten(_)
Flatten(ss) == IF ss = <<>> THEN <<>> ELSE Head(ss) \o Flatten(Tail(ss))

SeqsUpTo(S, n) == UNION {[1..k -> S] : k \in 0..n}

----------------------------------------------------------------------------
(* The external scene (assimp): the inputs of LoadMesh *)

PosPool == <<Vec3(1, 2, 3), Vec3(-1, 5, 0), Vec3(0, -3, 4)>>
NormalPool == <<Vec3(0, 1, 0), Vec3(1, -1, 0), Vec3(0, 0, 1)>>
TexPool == <<Vec3(1, 0, 9), Vec3(0, 1, 9), Vec3(1, 1, 9)>>
TangentPool == <<Vec3(1, 0, 0), Vec3(0, 2, 1), Vec3(2, 0, 1)>>
BitangentPool == <<Vec3(0, 0, 1), Vec3(1, 3, 0), Vec3(3, 1, 0)>>
Materials == <<Vec3(1, 0, 0), Vec3(0, 1, 1)>>

Pick(pool, k) == pool[(k % Len(pool)) + 1]

\* An aiMesh with nv vertices. Variant 0 has texture coordinates and tangents,
\* one triangle and one quad; variant 1 has neither, and two triangles.
AiMesh(nv, variant, shift) ==
    [ mNumVertices   |-> nv,
      mVertices      |-> [j \in 1..nv |-> Pick(PosPool, j - 1 + shift)],
      mNormals       |-> [j \in 1..nv |-> Pick(NormalPool, j - 1 + shift)],
      mTextureCoords |-> IF variant = 0
                           THEN [j \in 1..nv |-> Pick(TexPool, j - 1 + shift)]
                           ELSE <<>>,
      mTangents      |-> IF variant = 0
                           THEN [j \in 1..nv |-> Pick(TangentPool, j - 1 + shift)]
                           ELSE <<>>,
      mBitangents    |-> IF variant = 0
                           THEN [j \in 1..nv |-> Pick(BitangentPool, j - 1 + shift)]
                           ELSE <<>>,
      mFaces         |-> IF variant = 0
                           THEN << <<0, nv - 1, 0>>, <<0, 0, nv - 1, nv - 1>> >>
                           ELSE << <<0, 0, nv - 1>>, <<nv - 1, 0, 0>> >>,
      mMaterialIndex |-> variant ]

\* An aiScene whose meshes have the vertex counts of `counts`.
AiScene(counts, flip) ==
    [ mMeshes    |-> [i \in 1..Len(counts) |-> AiMesh(counts[i], (i + flip) % 2, i - 1)],
      mMaterials |-> Materials ]

Scenes == {AiScene(c, 0) : c \in SeqsUpTo(1..MaxVerts, MaxMeshes)}

\* The scenes of the upload runs: one submesh, and two submeshes.
StageScenes == {AiScene(<<MaxVerts>>, 0), AiScene(<<1, MaxVerts>>, 1)}

HasTextureCoords(paiMesh) == paiMesh.mTextureCoords # <<>>
HasTangentsAndBitangents(paiMesh) ==
    paiMesh.mTangents # <<>> /\ paiMesh.mBitangents # <<>>

----------------------------------------------------------------------------
(* Ingestion: LoadMesh, InitFromScene, InitMesh *)

Zero3D == Vec3(0, 0, 0)

\* The Vertex InitMesh builds from vertex i (1-based here) of paiMesh.
InitVertex(paiMesh, i, pColor) ==
    LET pPos == paiMesh.mVertices[i]
        pNormal == paiMesh.mNormals[i]
        pTexCoord == IF HasTextureCoords(paiMesh)
                       THEN paiMesh.mTextureCoords[i] ELSE Zero3D
        pTangent == IF HasTangentsAndBitangents(paiMesh)
                      THEN paiMesh.mTangents[i] ELSE Zero3D
        pBiTangent == IF HasTangentsAndBitangents(paiMesh)
                        THEN paiMesh.mBitangents[i] ELSE Zero3D
    IN [ m_pos      |-> Vec3(pPos[1], -pPos[2], pPos[3]),
         m_tex      |-> <<pTexCoord[1], pTexCoord[2]>>,
         m_normal   |-> Vec3(pNormal[1], pNormal[2], pNormal[3]),
         m_color    |-> Vec3(pColor[1], pColor[2], pColor[3]),
         m_tangent  |-> Vec3(pTangent[1], pTangent[2], pTangent[3]),
         m_binormal |-> Vec3(pBiTangent[1], pBiTangent[2], pBiTangent[3]) ]

\* The running bounding box after the vertex loop of InitMesh has seen
\* vertices 1..n of paiMesh (size is not touched inside the loop).
RECURSIVE AccumulateDim(_, _, _)
AccumulateDim(d, paiMesh, n) ==
    IF n = 0 THEN d
    ELSE LET p == AccumulateDim(d, paiMesh, n - 1)
             pPos == paiMesh.mVertices[n]
         IN [p EXCEPT !.max = Vec3Max(pPos, p.max), !.min = Vec3Min(pPos, p.min)]

\* The indices InitMesh pushes for faces 1..n: faces that are not triangles
\* are skipped.
RECURSIVE FaceIndices(_, _)
FaceIndices(faces, n) ==
    IF n = 0 THEN <<>>
    ELSE FaceIndices(faces, n - 1) \o
         (IF Len(faces[n]) # 3 THEN <<>>
          ELSE <<faces[n][1], faces[n][2], faces[n][3]>>)

\* InitMesh on the loader state L = [m_Entries, numVertices, dim].
InitMesh(L, index, paiMesh, scene) ==
    LET pColor == scene.mMaterials[paiMesh.mMaterialIndex + 1]
        pushed == [i \in 1..paiMesh.mNumVertices |-> InitVertex(paiMesh, i, pColor)]
        box == AccumulateDim(L.dim, paiMesh, paiMesh.mNumVertices)
        e == L.m_Entries[index]
    IN [L EXCEPT
          !.m_Entries[index] =
              [e EXCEPT !.MaterialIndex = paiMesh.mMaterialIndex,
                        !.Vertices = e.Vertices \o pushed,
                        !.Indices = e.Indices \o
                                    FaceIndices(paiMesh.mFaces, Len(paiMesh.mFaces))],
          !.dim = [box EXCEPT !.size = Vec3Sub(box.max, box.min)]]

\* A value-initialised MeshEntry, as vector::resize appends it.
NewEntry == [MaterialIndex |-> 0, vertexBase |-> 0, Vertices |-> <<>>, Indices |-> <<>>]

\* m_Entries.resize(n): the first n entries stay as they are.
Resize(entries, n) ==
    [i \in 1..n |-> IF i <= Len(entries) THEN entries[i] ELSE NewEntry]

\* The counters loop of InitFromScene over entries 1..n.
RECURSIVE Counters(_, _, _)
Counters(L, scene, n) ==
    IF n = 0 THEN L
    ELSE LET p == Counters(L, scene, n - 1)
         IN [p EXCEPT !.m_Entries[n].vertexBase = p.numVertices,
                      !.numVertices = p.numVertices + scene.mMeshes[n].mNumVertices]

\* The InitMesh loop of InitFromScene over entries 1..n.
RECURSIVE InitMeshes(_, _, _)
InitMeshes(L, scene, n) ==
    IF n = 0 THEN L
    ELSE InitMesh(InitMeshes(L, scene, n - 1), n, scene.mMeshes[n], scene)

InitFromScene(L, scene) ==
    LET resized == [L EXCEPT !.m_Entries = Resize(L.m_Entries, Len(scene.mMeshes))]
        counted == Counters(resized, scene, Len(resized.m_Entries))
    IN InitMeshes(counted, scene, Len(counted.m_Entries))

----------------------------------------------------------------------------
(* vkMeshLoader::vertexSize *)

\* The bytes vertexSize adds for one layout entry: the switch has a case for
\* VERTEX_LAYOUT_UV and a default.
VertexSizeOf(layoutDetail) ==
    IF layoutDetail = VERTEX_LAYOUT_UV THEN 2 * SizeofFloat ELSE 3 * SizeofFloat

RECURSIVE vertexSize(_)
vertexSize(layout) ==
    IF layout = <<>> THEN 0
    ELSE VertexSizeOf(Head(layout)) + vertexSize(Tail(layout))

----------------------------------------------------------------------------
(* Packing: the first half of createBuffers *)

\* PackAttribute with the sign of the normal's Y left as ingested.
PackAttributeNormalAsIngested(v, layoutDetail, scale) ==
    (IF layoutDetail = VERTEX_LAYOUT_POSITION
       THEN <<v.m_pos[1] * scale, v.m_pos[2] * scale, v.m_pos[3] * scale>> ELSE <<>>)
    \o (IF layoutDetail = VERTEX_LAYOUT_NORMAL
          THEN <<v.m_normal[1], v.m_normal[2], v.m_normal[3]>> ELSE <<>>)
    \o (IF layoutDetail = VERTEX_LAYOUT_UV
          THEN <<v.m_tex[1], v.m_tex[2]>> ELSE <<>>)
    \o (IF layoutDetail = VERTEX_LAYOUT_COLOR
          THEN <<v.m_color[1], v.m_color[2], v.m_color[3]>> ELSE <<>>)
    \o (IF layoutDetail = VERTEX_LAYOUT_TANGENT
          THEN <<v.m_tangent[1], v.m_tangent[2], v.m_tangent[3]>> ELSE <<>>)
    \o (IF layoutDetail = VERTEX_LAYOUT_BITANGENT
          THEN <<v.m_binormal[1], v.m_binormal[2], v.m_binormal[3]>> ELSE <<>>)
    \o (IF layoutDetail = VERTEX_LAYOUT_DUMMY_FLOAT THEN <<0>> ELSE <<>>)
    \o (IF layoutDetail = VERTEX_LAYOUT_DUMMY_VEC4 THEN <<0, 0, 0, 0>> ELSE <<>>)

\* What the body of the layout loop pushes for one layoutDetail of one vertex:
\* a chain of independent ifs, none of which matches a value outside the enum.
PackAttribute(v, layoutDetail, scale) ==
    (IF layoutDetail = VERTEX_LAYOUT_POSITION
       THEN <<v.m_pos[1] * scale, v.m_pos[2] * scale, v.m_pos[3] * scale>> ELSE <<>>)
    \o (IF layoutDetail = VERTEX_LAYOUT_NORMAL
          THEN <<v.m_normal[1], -v.m_normal[2], v.m_normal[3]>> ELSE <<>>)
    \o (IF layoutDetail = VERTEX_LAYOUT_UV
          THEN <<v.m_tex[1], v.m_tex[2]>> ELSE <<>>)
    \o (IF layoutDetail = VERTEX_LAYOUT_COLOR
          THEN <<v.m_color[1], v.m_color[2], v.m_color[3]>> ELSE <<>>)
    \o (IF layoutDetail = VERTEX_LAYOUT_TANGENT
          THEN <<v.m_tangent[1], v.m_tangent[2], v.m_tangent[3]>> ELSE <<>>)
    \o (IF layoutDetail = VERTEX_LAYOUT_BITANGENT
          THEN <<v.m_binormal[1], v.m_binormal[2], v.m_binormal[3]>> ELSE <<>>)
    \o (IF layoutDetail = VERTEX_LAYOUT_DUMMY_FLOAT THEN <<0>> ELSE <<>>)
    \o (IF layoutDetail = VERTEX_LAYOUT_DUMMY_VEC4 THEN <<0, 0, 0, 0>> ELSE <<>>)

\* The layout loop for one vertex.
PackVertex(v, layout, scale) ==
    Flatten([k \in 1..Len(layout) |-> PackAttribute(v, layout[k], scale)])

\* The vertex loops of createBuffers over all entries.
PackVertices(entries, layout, scale) ==
    Flatten([m \in 1..Len(entries) |->
        Flatten([i \in 1..Len(entries[m].Vertices) |->
            PackVertex(entries[m].Vertices[i], layout, scale)])])

\* The offset createBuffers adds to the indices of an entry: the number of
\* indices already in the merged stream.
IndexBase(merged, entry) == Len(merged)

\* The index loops of createBuffers over entries 1..n.
RECURSIVE PackIndices(_, _)
PackIndices(entries, n) ==
    IF n = 0 THEN <<>>
    ELSE LET merged == PackIndices(entries, n - 1)
             indexBase == IndexBase(merged, entries[n])
         IN merged \o [i \in 1..Len(entries[n].Indices) |->
                          entries[n].Indices[i] + indexBase]

\* dim.min *= scale; dim.max *= scale; dim.size *= scale
ScaleDim(d, scale) ==
    [min |-> Vec3Scale(d.min, scale),
     max |-> Vec3Scale(d.max, scale),
     size |-> Vec3Scale(d.size, scale)]

----------------------------------------------------------------------------
(* The device: buffers, memory, one command buffer, one queue.  A handle is   *)
(* the 1-based position of the object in its table; 0 is VK_NULL_HANDLE.      *)

VK_NULL_HANDLE == 0

Call(op, buf, mem, arg) == [op |-> op, buf |-> buf, mem |-> mem, arg |-> arg]
Log(d, c) == [d EXCEPT !.calls = Append(d.calls, c)]

\* The buffers a submitted, not yet completed copy reads or writes.
InFlight(d) == UNION {{d.queue[k].src, d.queue[k].dst} : k \in 1..Len(d.queue)}

DevCreateBuffer(d, usage, size) ==
    LET b == Len(d.buffers) + 1
    IN Log([d EXCEPT !.buffers = Append(d.buffers,
                [usage |-> usage, size |-> size, mem |-> VK_NULL_HANDLE, destroyed |-> 0])],
           Call("createBuffer", b, VK_NULL_HANDLE, size))

DevAllocateMemory(d, size, memoryTypeIndex, wanted) ==
    LET m == Len(d.memory) + 1
    IN Log([d EXCEPT !.memory = Append(d.memory,
                [size |-> size, memoryTypeIndex |-> memoryTypeIndex, wanted |-> wanted,
                 freed |-> 0, data |-> <<>>])],
           Call("allocateMemory", VK_NULL_HANDLE, m, memoryTypeIndex))

DevBindBufferMemory(d, b, m) ==
    Log([d EXCEPT !.buffers[b].mem = m], Call("bindBufferMemory", b, m, 0))

\* mapMemory, memcpy of `bytes` bytes of `stream`, unmapMemory
DevUpload(d, m, stream, bytes, elemSize) ==
    LET mapped == Log(d, Call("mapMemory", VK_NULL_HANDLE, m, 0))
        copied == Log([mapped EXCEPT !.memory[m].data =
                          SubSeq(stream, 1, bytes \div elemSize)],
                      Call("memcpy", VK_NULL_HANDLE, m, bytes))
    IN Log(copied, Call("unmapMemory", VK_NULL_HANDLE, m, 0))

CmdBegin(d) == Log([d EXCEPT !.cmd = <<>>], Call("begin", 0, 0, 0))

CmdCopyBuffer(d, src, dst, size) ==
    Log([d EXCEPT !.cmd = Append(d.cmd, [src |-> src, dst |-> dst, size |-> size])],
        Call("copyBuffer", src, dst, size))

CmdEnd(d) == Log(d, Call("end", 0, 0, 0))

QueueSubmit(d) ==
    Log([d EXCEPT !.queue = d.queue \o d.cmd], Call("submit", 0, 0, 0))

\* The device runs the copies of the queue in order.
RECURSIVE RunCopies(_, _)
RunCopies(d, n) ==
    IF n = 0 THEN d
    ELSE LET p == RunCopies(d, n - 1)
             c == d.queue[n]
             from == p.buffers[c.src].mem
             to == p.buffers[c.dst].mem
         IN [p EXCEPT !.memory[to].data =
                SubSeq(p.memory[from].data, 1, c.size \div SizeofFloat)]

\* waitIdle returns once every submitted copy has run.
QueueWaitIdle(d) ==
    Log([RunCopies(d, Len(d.queue)) EXCEPT !.queue = <<>>], Call("waitIdle", 0, 0, 0))

\* Destroying a buffer, or freeing its memory, while a submitted copy may
\* still use it is the hazard the wait before the release is there to exclude.
DevDestroyBuffer(d, b) ==
    IF b = VK_NULL_HANDLE THEN Log(d, Call("destroyBuffer", b, 0, 0))
    ELSE Log([d EXCEPT !.buffers[b].destroyed = @ + 1,
                       !.hazard = @ \/ b \in InFlight(d)],
             Call("destroyBuffer", b, 0, 0))

DevFreeMemory(d, m) ==
    IF m = VK_NULL_HANDLE THEN Log(d, Call("freeMemory", 0, m, 0))
    ELSE Log([d EXCEPT !.memory[m].freed = @ + 1,
                       !.hazard = @ \/ \E b \in InFlight(d) : d.buffers[b].mem = m],
             Call("freeMemory", 0, m, 0))

----------------------------------------------------------------------------
(* VulkanMeshLoader::getMemoryType and VulkanMeshLoader::createBuffer *)

\* deviceMemoryProperties.memoryTypes[i].propertyFlags: the table lists the
\* flags of the types the device has, the other slots of the array are empty.
PropertyFlags(deviceMemoryProperties, i) ==
    IF i < Len(deviceMemoryProperties) THEN deviceMemoryProperties[i + 1] ELSE {}

\* The loop of getMemoryType from index i on; falls out of the loop to
\* "todo : throw error; return 0".
RECURSIVE getMemoryTypeFrom(_, _, _, _)
getMemoryTypeFrom(deviceMemoryProperties, typeBits, properties, i) ==
    IF i >= MemoryTypeCount THEN 0
    ELSE IF typeBits % 2 = 1
            /\ (PropertyFlags(deviceMemoryProperties, i) \cap properties) = properties
         THEN i
         ELSE getMemoryTypeFrom(deviceMemoryProperties, typeBits \div 2, properties, i + 1)

getMemoryType(deviceMemoryProperties, typeBits, properties) ==
    getMemoryTypeFrom(deviceMemoryProperties, typeBits, properties, 0)

\* createBuffer: the device after the call, and the two handles it hands out.
\* env is the physical device: its memory type table, and the memoryTypeBits
\* that getBufferMemoryRequirements reports.
createBuffer(d, env, usageFlags, memoryPropertyFlags, size) ==
    LET d1 == DevCreateBuffer(d, usageFlags, size)
        buffer == Len(d1.buffers)
        d2 == Log(d1, Call("getBufferMemoryRequirements", buffer, 0, env.memoryTypeBits))
        memoryTypeIndex == getMemoryType(env.memoryTypes, env.memoryTypeBits,
                                         memoryPropertyFlags)
        d3 == DevAllocateMemory(d2, size, memoryTypeIndex, memoryPropertyFlags)
        memory == Len(d3.memory)
    IN [dev |-> DevBindBufferMemory(d3, buffer, memory),
        buffer |-> buffer, memory |-> memory]

----------------------------------------------------------------------------
(* Upload: the second half of createBuffers *)

\* TakesStaging deciding on the flag alone.
TakesStagingOnFlagAlone(useStaging, copyCmd, copyQueue) == useStaging

\* SubmitAndWait returning right after the submit.
SubmitWithoutWait(d) == QueueSubmit(d)

\* if (useStaging && copyQueue && copyCmd)
TakesStaging(useStaging, copyCmd, copyQueue) ==
    useStaging /\ copyQueue # VK_NULL_HANDLE /\ copyCmd # VK_NULL_HANDLE

\* copyQueue.submit(submitInfo, VK_NULL_HANDLE); copyQueue.waitIdle();
SubmitAndWait(d) == QueueWaitIdle(QueueSubmit(d))

\* The staging branch: the device and the MeshBuffer after it.
StagingUpload(d, env, mb, vertices, indices) ==
    LET vertexStaging == createBuffer(d, env, {"TransferSrc"}, {"HostVisible"},
                                      mb.vertices.size)
        d1 == DevUpload(vertexStaging.dev, vertexStaging.memory, vertices,
                        mb.vertices.size, SizeofFloat)
        indexStaging == createBuffer(d1, env, {"TransferSrc"}, {"HostVisible"},
                                     mb.indices.size)
        d2 == DevUpload(indexStaging.dev, indexStaging.memory, indices,
                        mb.indices.size, SizeofUint32)
        vtx == createBuffer(d2, env, {"VertexBuffer", "TransferDst"}, {"DeviceLocal"},
                            mb.vertices.size)
        idx == createBuffer(vtx.dev, env, {"IndexBuffer", "TransferDst"}, {"DeviceLocal"},
                            mb.indices.size)
        d3 == CmdBegin(idx.dev)
        d4 == CmdCopyBuffer(d3, vertexStaging.buffer, vtx.buffer, mb.vertices.size)
        d5 == CmdCopyBuffer(d4, indexStaging.buffer, idx.buffer, mb.indices.size)
        d6 == SubmitAndWait(CmdEnd(d5))
        d7 == DevFreeMemory(DevDestroyBuffer(d6, vertexStaging.buffer),
                            vertexStaging.memory)
        d8 == DevFreeMemory(DevDestroyBuffer(d7, indexStaging.buffer),
                            indexStaging.memory)
    IN [dev |-> d8,
        meshBuffer |-> [mb EXCEPT !.vertices.buf = vtx.buffer,
                                  !.vertices.mem = vtx.memory,
                                  !.indices.buf = idx.buffer,
                                  !.indices.mem = idx.memory]]

\* The else branch: two host visible buffers, filled through a mapping.
DirectUpload(d, env, mb, vertices, indices) ==
    LET vtx == createBuffer(d, env, {"VertexBuffer", "TransferSrc"}, {"HostVisible"},
                            mb.vertices.size)
        d1 == DevUpload(vtx.dev, vtx.memory, vertices, mb.vertices.size, SizeofFloat)
        idx == createBuffer(d1, env, {"IndexBuffer", "TransferSrc"}, {"HostVisible"},
                            mb.indices.size)
        d2 == DevUpload(idx.dev, idx.memory, indices, mb.indices.size, SizeofUint32)
    IN [dev |-> d2,
        meshBuffer |-> [mb EXCEPT !.vertices.buf = vtx.buffer,
                                  !.vertices.mem = vtx.memory,
                                  !.indices.buf = idx.buffer,
                                  !.indices.mem = idx.memory]]

\* createBuffers: everything the call leaves behind.
createBuffers(entries, box, d, env, mb, layout, scale, useStaging, copyCmd, copyQueue) ==
    LET vertices == PackVertices(entries, layout, scale)
        indices == PackIndices(entries, Len(entries))
        sized == [mb EXCEPT !.vertices.size = Len(vertices) * SizeofFloat,
                            !.indices.size = Len(indices) * SizeofUint32,
                            !.indexCount = Len(indices)]
        up == IF TakesStaging(useStaging, copyCmd, copyQueue)
                THEN StagingUpload(d, env, sized, vertices, indices)
                ELSE DirectUpload(d, env, sized, vertices, indices)
    IN [dim |-> ScaleDim(box, scale),
        dev |-> up.dev,
        meshBuffer |-> up.meshBuffer,
        vertexBuffer |-> vertices,
        indexBuffer |-> indices]

\* freeMeshBufferResources leaving the memory of the index buffer allocated.
freeMeshBufferResourcesKeepingIndexMemory(d, mb) ==
    LET d1 == DevFreeMemory(DevDestroyBuffer(d, mb.vertices.buf), mb.vertices.mem)
    IN IF mb.indices.buf # VK_NULL_HANDLE
         THEN DevDestroyBuffer(d1, mb.indices.buf)
         ELSE d1

\* vkMeshLoader::freeMeshBufferResources
freeMeshBufferResources(d, mb) ==
    LET d1 == DevFreeMemory(DevDestroyBuffer(d, mb.vertices.buf), mb.vertices.mem)
    IN IF mb.indices.buf # VK_NULL_HANDLE
         THEN DevFreeMemory(DevDestroyBuffer(d1, mb.indices.buf), mb.indices.mem)
         ELSE d1

----------------------------------------------------------------------------
(* Inputs of createBuffers *)

\* A value outside the VertexLayout enum, as a cast or a newer header gives.
UnknownKind == VERTEX_LAYOUT_DUMMY_VEC4 + 1

Kinds == {VERTEX_LAYOUT_POSITION, VERTEX_LAYOUT_NORMAL, VERTEX_LAYOUT_COLOR,
          VERTEX_LAYOUT_UV, VERTEX_LAYOUT_TANGENT, VERTEX_LAYOUT_BITANGENT,
          VERTEX_LAYOUT_DUMMY_FLOAT, VERTEX_LAYOUT_DUMMY_VEC4}

Layouts(n) == SeqsUpTo(Kinds \cup {UnknownKind}, n) \ {<<>>}

Scales == {1, 2}

Handles == {VK_NULL_HANDLE, 1}

\* Physical devices: type 0 is the first match for both requests; the first
\* matches are types 2 and 1, type 0 being excluded by the type bits; no
\* allowed type is device local.
Envs ==
    { [memoryTypes |-> (<<{"DeviceLocal", "HostVisible"}, {"HostVisible"}>>),
       memoryTypeBits |-> 3],
      [memoryTypes |-> (<<{"HostVisible"}, {"DeviceLocal"},
                                     {"HostVisible", "HostCoherent"}, {"DeviceLocal"}>>),
       memoryTypeBits |-> 14],
      [memoryTypes |-> (<<{"DeviceLocal"}, {"HostVisible", "HostCoherent"}>>),
       memoryTypeBits |-> 2] }

DefaultEnv ==
    [memoryTypes |-> (<<{"DeviceLocal"}, {"HostVisible", "HostCoherent"}>>),
     memoryTypeBits |-> 3]

----------------------------------------------------------------------------
(* State machine *)

\* The source attributes of vertex i of paiMesh, with the defaults of a mesh
\* that has no texture coordinates or tangents (history only).
SourceVertex(paiMesh, i, scene) ==
    [pos |-> paiMesh.mVertices[i],
     normal |-> paiMesh.mNormals[i],
     uv |-> IF paiMesh.mTextureCoords = <<>> THEN <<0, 0>>
            ELSE <<paiMesh.mTextureCoords[i][1], paiMesh.mTextureCoords[i][2]>>,
     tangent |-> IF paiMesh.mTangents = <<>> THEN Zero3D ELSE paiMesh.mTangents[i],
     bitangent |-> IF paiMesh.mBitangents = <<>> THEN Zero3D ELSE paiMesh.mBitangents[i],
     color |-> scene.mMaterials[paiMesh.mMaterialIndex + 1]]

Ingest(old, scene) ==
    [m \in 1..Len(scene.mMeshes) |->
        (IF m <= Len(old) THEN old[m] ELSE <<>>) \o
        [i \in 1..scene.mMeshes[m].mNumVertices |->
            SourceVertex(scene.mMeshes[m], i, scene)]]

NoBuffer == [buf |-> VK_NULL_HANDLE, mem |-> VK_NULL_HANDLE, size |-> 0]

NoCall == [via |-> "none", layout |-> <<>>, scale |-> 1, useStaging |-> FALSE,
           copyCmd |-> VK_NULL_HANDLE, copyQueue |-> VK_NULL_HANDLE, env |-> DefaultEnv,
           buffersBefore |-> 0, memoryBefore |-> 0]

\* glm::vec3 size has no initialiser: what it holds before the first load is
\* whatever the build leaves there.
Init ==
    /\ m_Entries = <<>>
    /\ numVertices = 0
    /\ \E garbage \in {0, 7} :
          dim = [min |-> Vec3(FLT_MAX, FLT_MAX, FLT_MAX),
                 max |-> Vec3(-FLT_MAX, -FLT_MAX, -FLT_MAX),
                 size |-> Vec3(garbage, garbage, garbage)]
    /\ pScene = <<>>
    /\ dev = [buffers |-> <<>>, memory |-> <<>>, cmd |-> <<>>, queue |-> <<>>,
              calls |-> <<>>, hazard |-> FALSE]
    /\ meshBuffer = [vertices |-> NoBuffer, indices |-> NoBuffer, indexCount |-> 0]
    /\ vertexBuffer = <<>>
    /\ indexBuffer = <<>>
    /\ ingested = <<>>
    /\ lastOp = "new"
    /\ lastCall = NoCall
    /\ nLoads = 0
    /\ nCreates = 0
    /\ nFrees = 0

\* LoadMesh on a file the importer parses into `scene`.
LoadMesh(scene) ==
    /\ nLoads < MaxLoads
    /\ \E L \in {InitFromScene([m_Entries |-> m_Entries, numVertices |-> numVertices,
                                dim |-> dim], scene)} :
          /\ m_Entries' = L.m_Entries
          /\ numVertices' = L.numVertices
          /\ dim' = L.dim
    /\ pScene' = <<scene>>
    /\ ingested' = Ingest(ingested, scene)
    /\ lastOp' = "LoadMesh"
    /\ nLoads' = nLoads + 1
    /\ UNCHANGED <<dev, meshBuffer, vertexBuffer, indexBuffer, lastCall, nCreates, nFrees>>

\* LoadMesh on a file the importer cannot parse: returns false.
LoadMeshFailed ==
    /\ nLoads < MaxLoads
    /\ pScene' = <<>>
    /\ lastOp' = "LoadMeshFailed"
    /\ nLoads' = nLoads + 1
    /\ UNCHANGED <<m_Entries, numVertices, dim, dev, meshBuffer, vertexBuffer,
                   indexBuffer, ingested, lastCall, nCreates, nFrees>>

Created(via, env, layout, scale, useStaging, copyCmd, copyQueue) ==
    /\ nCreates < MaxCreates
    /\ \E r \in {createBuffers(m_Entries, dim, [dev EXCEPT !.calls = <<>>], env,
                              meshBuffer, layout, scale,
                              useStaging, copyCmd, copyQueue)} :
          /\ dim' = r.dim
          /\ dev' = r.dev
          /\ meshBuffer' = r.meshBuffer
          /\ vertexBuffer' = r.vertexBuffer
          /\ indexBuffer' = r.indexBuffer
    /\ lastOp' = "createBuffers"
    /\ lastCall' = [via |-> via, layout |-> layout, scale |-> scale,
                    useStaging |-> useStaging, copyCmd |-> copyCmd,
                    copyQueue |-> copyQueue, env |-> env,
                    buffersBefore |-> Len(dev.buffers),
                    memoryBefore |-> Len(dev.memory)]
    /\ nCreates' = nCreates + 1
    /\ UNCHANGED <<m_Entries, numVertices, pScene, ingested, nLoads, nFrees>>

CreateBuffers(env, layout, scale, useStaging, copyCmd, copyQueue) ==
    Created("createBuffers", env, layout, scale, useStaging, copyCmd, copyQueue)

\* createVulkanBuffers: createBuffers(..., false, VK_NULL_HANDLE, VK_NULL_HANDLE)
CreateVulkanBuffers(env, layout, scale) ==
    Created("createVulkanBuffers", env, layout, scale, FALSE, VK_NULL_HANDLE,
            VK_NULL_HANDLE)

\* freeMeshBufferResources on the MeshBuffer a createBuffers call has filled
FreeMeshBufferResources ==
    /\ nCreates > 0
    /\ nFrees < MaxFrees
    /\ dev' = freeMeshBufferResources([dev EXCEPT !.calls = <<>>], meshBuffer)
    /\ lastOp' = "freeMeshBufferResources"
    /\ nFrees' = nFrees + 1
    /\ UNCHANGED <<m_Entries, numVertices, dim, pScene, meshBuffer, vertexBuffer,
                   indexBuffer, ingested, lastCall, nLoads, nCreates>>

\* Ingestion and packing: any scene, single-attribute layouts, direct upload.
Next ==
    \/ \E scene \in Scenes : LoadMesh(scene)
    \/ LoadMeshFailed
    \/ \E layout \in Layouts(1), scale \in Scales :
          CreateVulkanBuffers(DefaultEnv, layout, scale)

Spec == Init /\ [][Next]_vars

\* Packing as a function of the scene and the layout: one load and one
\* createVulkanBuffers call on a fresh loader, over every scene and every
\* layout of up to MaxLayoutLen attributes.
NextPack ==
    \/ \E scene \in Scenes \cup StageScenes : nLoads = 0 /\ LoadMesh(scene)
    \/ \E layout \in Layouts(MaxLayoutLen), scale \in Scales :
          nCreates = 0 /\ CreateVulkanBuffers(DefaultEnv, layout, scale)

SpecPack == Init /\ [][NextPack]_vars

\* Upload and release: both entry points, every combination of useStaging,
\* copyCmd and copyQueue, every physical device of Envs.
StageLayouts == {<<VERTEX_LAYOUT_POSITION, VERTEX_LAYOUT_UV>>}

NextStage ==
    \/ \E scene \in StageScenes : nLoads = 0 /\ LoadMesh(scene)
    \/ \E env \in Envs, layout \in StageLayouts, useStaging \in BOOLEAN,
          copyCmd \in Handles, copyQueue \in Handles :
          CreateBuffers(env, layout, 1, useStaging, copyCmd, copyQueue)
    \/ \E env \in Envs, layout \in StageLayouts : CreateVulkanBuffers(env, layout, 1)
    \/ FreeMeshBufferResources

SpecStage == Init /\ [][NextStage]_vars

----------------------------------------------------------------------------
(* Vocabulary of the properties *)

AfterCreate == lastOp = "createBuffers"

Recognised(layout) == \A k \in 1..Len(layout) : layout[k] \in Kinds

TotalVertices(entries) == SumSeq([m \in 1..Len(entries) |-> Len(entries[m].Vertices)])

\* The number of floats an attribute kind takes in a packed vertex.
Components(kind) ==
    CASE kind = VERTEX_LAYOUT_UV -> 2
      [] kind = VERTEX_LAYOUT_DUMMY_VEC4 -> 4
      [] kind = VERTEX_LAYOUT_DUMMY_FLOAT -> 1
      [] OTHER -> 3

Stride(layout) == SizeofFloat * SumSeq([k \in 1..Len(layout) |-> Components(layout[k])])

\* The buffers and the memory the last createBuffers call has made.
NewBuffers == (lastCall.buffersBefore + 1)..Len(dev.buffers)
NewMemory == (lastCall.memoryBefore + 1)..Len(dev.memory)

\* The positions of the device calls named in ops, in the last operation.
Calls(ops) == {k \in 1..Len(dev.calls) : dev.calls[k].op \in ops}
Before(A, B) == \A a \in A, b \in B : a < b

ValidTransfer ==
    lastCall.useStaging /\ lastCall.copyCmd # VK_NULL_HANDLE
        /\ lastCall.copyQueue # VK_NULL_HANDLE

----------------------------------------------------------------------------
(* C1: in the merged index stream, index k of entry i has the value         *)
(* k + vertexBase_i, vertexBase_i being the number of vertices of the       *)
(* entries before i.                                                        *)

VertexBaseOf(entries, i) == SumSeq([j \in 1..(i - 1) |-> Len(entries[j].Vertices)])

MergedByVertexBase(entries) ==
    Flatten([i \in 1..Len(entries) |->
        [k \in 1..Len(entries[i].Indices) |->
            entries[i].Indices[k] + VertexBaseOf(entries, i)]])

C1_IndexOffsetIsVertexBase ==
    AfterCreate => indexBuffer = MergedByVertexBase(m_Entries)

----------------------------------------------------------------------------
(* C2: vertexSize(layout) is 4 bytes times the sum of the component counts  *)
(* of the layout (uv 2, pad-vec4 4, pad-scalar 1, the others 3), and the    *)
(* packed vertex stream of N vertices has N * vertexSize(layout) / 4        *)
(* floats.                                                                  *)

C2_StrideMatchesStream ==
    (AfterCreate /\ Recognised(lastCall.layout)) =>
        /\ vertexSize(lastCall.layout) = Stride(lastCall.layout)
        /\ Len(vertexBuffer) * SizeofFloat =
               TotalVertices(m_Entries) * vertexSize(lastCall.layout)

----------------------------------------------------------------------------
(* C3: every allocation of createBuffer uses the lowest memory type index   *)
(* whose bit is set in typeBits and whose flags contain the requested       *)
(* ones; when there is no such index nothing is allocated.                  *)

Qualifies(env, properties, i) ==
    /\ (env.memoryTypeBits \div (2 ^ i)) % 2 = 1
    /\ properties \subseteq PropertyFlags(env.memoryTypes, i)

C3_AllocationsUseQualifyingType ==
    AfterCreate =>
        \A m \in NewMemory :
            /\ Qualifies(lastCall.env, dev.memory[m].wanted, dev.memory[m].memoryTypeIndex)
            /\ \A j \in 0..(dev.memory[m].memoryTypeIndex - 1) :
                   ~Qualifies(lastCall.env, dev.memory[m].wanted, j)

----------------------------------------------------------------------------
(* C4: a createBuffers call whose layout holds a kind outside the eight     *)
(* recognised ones creates no buffer and allocates no memory.               *)

C4_UnknownKindCreatesNothing ==
    (AfterCreate /\ ~Recognised(lastCall.layout)) =>
        NewBuffers = {} /\ NewMemory = {}

----------------------------------------------------------------------------
(* C5: after a successful LoadMesh, entry i has vertexBase equal to the sum *)
(* of the vertex counts of submeshes 0..i-1 of the scene just loaded, and   *)
(* holds exactly the vertices of submesh i.                                 *)

C5_EntriesMatchLoadedScene ==
    lastOp = "LoadMesh" =>
        LET scene == pScene[1]
        IN /\ Len(m_Entries) = Len(scene.mMeshes)
           /\ \A i \in 1..Len(m_Entries) :
                /\ m_Entries[i].vertexBase =
                       SumSeq([j \in 1..(i - 1) |-> scene.mMeshes[j].mNumVertices])
                /\ Len(m_Entries[i].Vertices) = scene.mMeshes[i].mNumVertices
                /\ ingested[i] = [k \in 1..scene.mMeshes[i].mNumVertices |->
                                     SourceVertex(scene.mMeshes[i], k, scene)]

----------------------------------------------------------------------------
(* C6: after every createBuffers call with scale s, dim.min, dim.max and    *)
(* dim.size are s times the per-axis minimum, maximum and extent of the raw *)
(* positions of the mesh.                                                   *)

RawPositions == Flatten([m \in 1..Len(ingested) |->
                    [i \in 1..Len(ingested[m]) |-> ingested[m][i].pos]])

RECURSIVE RawMin(_)
RawMin(ps) == IF Len(ps) = 1 THEN ps[1] ELSE Vec3Min(Head(ps), RawMin(Tail(ps)))

RECURSIVE RawMax(_)
RawMax(ps) == IF Len(ps) = 1 THEN ps[1] ELSE Vec3Max(Head(ps), RawMax(Tail(ps)))

C6_BoxIsScaledRawBox ==
    (AfterCreate /\ RawPositions # <<>>) =>
        LET lo == RawMin(RawPositions)
            hi == RawMax(RawPositions)
        IN /\ dim.min = Vec3Scale(lo, lastCall.scale)
           /\ dim.max = Vec3Scale(hi, lastCall.scale)
           /\ dim.size = Vec3Scale(Vec3Sub(hi, lo), lastCall.scale)

----------------------------------------------------------------------------
(* C7: the packed vertex stream lists the vertices in entry order, then     *)
(* vertex order, and for each vertex the attributes of the layout in layout *)
(* order: the source position with Y negated, times the scale; the source   *)
(* normal with Y negated; uv, color, tangent and bitangent as they are; one *)
(* zero for pad-scalar and four for pad-vec4.                               *)

ExpectedAttribute(sv, kind, scale) ==
    CASE kind = VERTEX_LAYOUT_POSITION ->
             <<sv.pos[1] * scale, (0 - sv.pos[2]) * scale, sv.pos[3] * scale>>
      [] kind = VERTEX_LAYOUT_NORMAL -> <<sv.normal[1], 0 - sv.normal[2], sv.normal[3]>>
      [] kind = VERTEX_LAYOUT_UV -> sv.uv
      [] kind = VERTEX_LAYOUT_COLOR -> sv.color
      [] kind = VERTEX_LAYOUT_TANGENT -> sv.tangent
      [] kind = VERTEX_LAYOUT_BITANGENT -> sv.bitangent
      [] kind = VERTEX_LAYOUT_DUMMY_FLOAT -> <<0>>
      [] kind = VERTEX_LAYOUT_DUMMY_VEC4 -> <<0, 0, 0, 0>>

ExpectedStream(source, layout, scale) ==
    Flatten([m \in 1..Len(source) |->
        Flatten([i \in 1..Len(source[m]) |->
            Flatten([k \in 1..Len(layout) |->
                ExpectedAttribute(source[m][i], layout[k], scale)])])])

C7_StreamIsLayoutOrdered ==
    (AfterCreate /\ Recognised(lastCall.layout)) =>
        vertexBuffer = ExpectedStream(ingested, lastCall.layout, lastCall.scale)

C7_Witness ==
    /\ AfterCreate
    /\ lastCall.layout = <<VERTEX_LAYOUT_NORMAL, VERTEX_LAYOUT_POSITION>>
    /\ lastCall.scale = 2
    /\ Len(m_Entries) = 2
    /\ Len(vertexBuffer) = 6 * TotalVertices(m_Entries)
    /\ TotalVertices(m_Entries) >= 3

----------------------------------------------------------------------------
(* C8: createBuffers takes the staging path exactly when useStaging is true *)
(* and both copyCmd and copyQueue are valid; otherwise, and always through  *)
(* createVulkanBuffers, it creates exactly two host visible buffers, the    *)
(* vertex and the index buffer, records no copy and submits nothing.        *)

StagingShape ==
    /\ Cardinality(NewBuffers) = 4
    /\ Cardinality(Calls({"copyBuffer"})) = 2
    /\ Calls({"submit"}) # {}

DirectShape ==
    /\ Cardinality(NewBuffers) = 2
    /\ Cardinality(NewMemory) = 2
    /\ NewBuffers = {meshBuffer.vertices.buf, meshBuffer.indices.buf}
    /\ "VertexBuffer" \in dev.buffers[meshBuffer.vertices.buf].usage
    /\ "IndexBuffer" \in dev.buffers[meshBuffer.indices.buf].usage
    /\ \A m \in NewMemory : dev.memory[m].wanted = {"HostVisible"}
    /\ Calls({"begin", "copyBuffer", "end", "submit", "waitIdle"}) = {}
    /\ dev.queue = <<>>

C8_PathSelection ==
    AfterCreate =>
        /\ IF ValidTransfer THEN StagingShape ELSE DirectShape
        /\ lastCall.via = "createVulkanBuffers" => DirectShape

C8_Witness ==
    /\ AfterCreate
    /\ lastCall.via = "createBuffers"
    /\ lastCall.useStaging
    /\ lastCall.copyCmd # VK_NULL_HANDLE
    /\ lastCall.copyQueue = VK_NULL_HANDLE
    /\ DirectShape
    /\ Len(vertexBuffer) > 0

----------------------------------------------------------------------------
(* C9: on the staging path both staging buffers are filled before any copy  *)
(* is recorded; the vertex copy is recorded before the index copy, each of  *)
(* the full byte size of its stream; then the command buffer is submitted,  *)
(* the caller waits for the queue to be idle, and only then the staging     *)
(* buffers are destroyed and their memory freed, never while the copy may   *)
(* still run.  The MeshBuffer holds the device local destinations.          *)

MinOf(S) == CHOOSE x \in S : \A y \in S : x <= y
MaxOf(S) == CHOOSE x \in S : \A y \in S : x >= y

C9_StagingOrder ==
    (AfterCreate /\ ValidTransfer) =>
        LET fills == Calls({"mapMemory", "memcpy", "unmapMemory"})
            copies == Calls({"copyBuffer"})
            submits == Calls({"submit"})
            waits == Calls({"waitIdle"})
            releases == Calls({"destroyBuffer", "freeMemory"})
            staging == {dev.calls[k].buf : k \in copies}
            vertexCopy == dev.calls[MinOf(copies)]
            indexCopy == dev.calls[MaxOf(copies)]
        IN /\ Cardinality(copies) = 2
           /\ Cardinality(staging) = 2
           /\ {dev.calls[k].mem : k \in Calls({"memcpy"})} =
                  {dev.buffers[b].mem : b \in staging}
           /\ Before(fills, copies)
           /\ vertexCopy.mem = meshBuffer.vertices.buf
           /\ vertexCopy.arg = Len(vertexBuffer) * SizeofFloat
           /\ indexCopy.mem = meshBuffer.indices.buf
           /\ indexCopy.arg = Len(indexBuffer) * SizeofUint32
           /\ Cardinality(submits) = 1 /\ Cardinality(waits) = 1
           /\ Before(copies, submits)
           /\ Before(submits, waits)
           /\ Before(waits, releases)
           /\ {dev.calls[k].buf : k \in Calls({"destroyBuffer"})} = staging
           /\ {dev.calls[k].mem : k \in Calls({"freeMemory"})} =
                  {dev.buffers[b].mem : b \in staging}
           /\ ~dev.hazard
           /\ \A b \in {meshBuffer.vertices.buf, meshBuffer.indices.buf} :
                /\ b \notin staging
                /\ dev.buffers[b].destroyed = 0
                /\ dev.memory[dev.buffers[b].mem].wanted = {"DeviceLocal"}
                /\ dev.memory[dev.buffers[b].mem].freed = 0
           /\ dev.memory[meshBuffer.vertices.mem].data = vertexBuffer
           /\ dev.memory[meshBuffer.indices.mem].data = indexBuffer

C9_Witness ==
    /\ AfterCreate
    /\ ValidTransfer
    /\ Len(vertexBuffer) > 0
    /\ Len(indexBuffer) > 0
    /\ Cardinality(Calls({"destroyBuffer"})) = 2

----------------------------------------------------------------------------
(* C10: after one createBuffers call followed by one                        *)
(* freeMeshBufferResources call, every buffer and every memory allocation   *)
(* the createBuffers call made, staging or destination, has been released   *)
(* exactly once.                                                            *)

C10_ReleasedExactlyOnce ==
    (nCreates = 1 /\ nFrees = 1) =>
        /\ Len(dev.buffers) >= 2
        /\ Len(dev.memory) = Len(dev.buffers)
        /\ \A b \in 1..Len(dev.buffers) : dev.buffers[b].destroyed = 1
        /\ \A m \in 1..Len(dev.memory) : dev.memory[m].freed = 1

C10_Witness ==
    /\ nCreates = 1
    /\ nFrees = 1
    /\ lastOp = "freeMeshBufferResources"
    /\ Len(dev.buffers) = 4
    /\ Len(vertexBuffer) > 0

====
